---- MODULE Spec2Model ----
(***************************************************************************)
(* Model of the aict crate: Factory<T> (src/factory.rs) over the bounded   *)
(* integer implementation of Aictable (src/aictable.rs), built through     *)
(* FactoryBuilder (src/builder.rs).  T is a small unsigned integer type    *)
(* with the values TMIN..TMAX.                                             *)
(***************************************************************************)
EXTENDS Integers, FiniteSets, Sequences, TLC

\* ---- the integer type T ------------------------------------------------
TMIN == 0
TMAX == 2
Dom == TMIN..TMAX
DomSize == TMAX - TMIN + 1

\* const INITIAL: Self = Self::MIN
INITIAL == TMIN

\* *self == Self::MAX
is_max_reached(v) == v = TMAX

\* A successor that wraps where it has to saturate.
saturating_next_Wraps(v) == TMIN + ((v - TMIN + 1) % (TMAX - TMIN + 1))

\* self.saturating_add(1)
saturating_next(v) == IF v + 1 > TMAX THEN TMAX ELSE v + 1

\* A successor that leaves the domain instead of wrapping.
wrapping_next_Overflows(v) == v + 1

\* self.wrapping_add(1): addition modulo the width of the type
wrapping_next(v) == TMIN + ((v - TMIN + 1) % DomSize)

\* ---- results -----------------------------------------------------------
NoVal == TMIN - 1
Ok(v) == [tag |-> "Ok", val |-> v]
Unit == [tag |-> "Ok", val |-> NoVal]
AlreadyExist(v) == [tag |-> "AlreadyExist", val |-> v]
MaxReached == [tag |-> "MaxReached", val |-> NoVal]
OutOfSpace == [tag |-> "OutOfSpace", val |-> NoVal]
Diverged == [tag |-> "Diverged", val |-> NoVal]
RetBool(b) == [tag |-> IF b THEN "true" ELSE "false", val |-> NoVal]

\* ---- Factory<T> --------------------------------------------------------
\* Factory::new
FactoryNew(iv, l, r) ==
    [initial_value |-> iv, looping |-> l, rewind |-> r, cursor |-> iv, set |-> {}]

\* FactoryBuilder::default().initial_value(iv).looping(l).rewind(r).build();
\* a setter that is not called leaves the default (INITIAL, FALSE, FALSE).
Build(iv, l, r) == FactoryNew(iv, l, r)

\* Iterations after which the walk of the while loop is given up as divergent.
Fuel == 2 * DomSize + 1

\* The loop with the test for a full cycle made before the cursor advances.
RECURSIVE NextLoop_EarlyStop(_, _, _, _, _)
NextLoop_EarlyStop(cur, start, s, l, n) ==
    IF n >= Fuel THEN [end |-> "Diverged", cursor |-> cur, iters |-> n]
    ELSE IF cur \in s
    THEN IF l
         THEN LET c == wrapping_next(cur)
              IN IF wrapping_next(c) = start
                 THEN [end |-> "OutOfSpace", cursor |-> start, iters |-> n + 1]
                 ELSE NextLoop_EarlyStop(c, start, s, l, n + 1)
         ELSE LET c == saturating_next(cur)
              IN IF is_max_reached(c)
                 THEN [end |-> "MaxReached", cursor |-> c, iters |-> n + 1]
                 ELSE NextLoop_EarlyStop(c, start, s, l, n + 1)
    ELSE [end |-> "Found", cursor |-> cur, iters |-> n]

\* The loop without the test for a full cycle.
RECURSIVE NextLoop_NoCycleTest(_, _, _, _, _)
NextLoop_NoCycleTest(cur, start, s, l, n) ==
    IF n >= Fuel THEN [end |-> "Diverged", cursor |-> cur, iters |-> n]
    ELSE IF cur \in s
    THEN IF l
         THEN NextLoop_NoCycleTest(wrapping_next(cur), start, s, l, n + 1)
         ELSE LET c == saturating_next(cur)
              IN IF is_max_reached(c)
                 THEN [end |-> "MaxReached", cursor |-> c, iters |-> n + 1]
                 ELSE NextLoop_NoCycleTest(c, start, s, l, n + 1)
    ELSE [end |-> "Found", cursor |-> cur, iters |-> n]

\* The loop with the test for the maximum made before the cursor advances.
RECURSIVE NextLoop_MaxTestFirst(_, _, _, _, _)
NextLoop_MaxTestFirst(cur, start, s, l, n) ==
    IF n >= Fuel THEN [end |-> "Diverged", cursor |-> cur, iters |-> n]
    ELSE IF cur \in s
    THEN IF l
         THEN LET c == wrapping_next(cur)
              IN IF c = start
                 THEN [end |-> "OutOfSpace", cursor |-> c, iters |-> n + 1]
                 ELSE NextLoop_MaxTestFirst(c, start, s, l, n + 1)
         ELSE IF is_max_reached(cur)
              THEN [end |-> "MaxReached", cursor |-> cur, iters |-> n + 1]
              ELSE NextLoop_MaxTestFirst(saturating_next(cur), start, s, l, n + 1)
    ELSE [end |-> "Found", cursor |-> cur, iters |-> n]

\* The while loop of Factory::next (lines 46-62), started with n iterations
\* already done: the cursor it ends on, how it ended and the iterations made.
RECURSIVE NextLoop(_, _, _, _, _)
NextLoop(cur, start, s, l, n) ==
    IF n >= Fuel THEN [end |-> "Diverged", cursor |-> cur, iters |-> n]
    ELSE IF cur \in s
    THEN IF l
         THEN LET c == wrapping_next(cur)
              IN IF c = start
                 THEN [end |-> "OutOfSpace", cursor |-> c, iters |-> n + 1]
                 ELSE NextLoop(c, start, s, l, n + 1)
         ELSE LET c == saturating_next(cur)
              IN IF is_max_reached(c)
                 THEN [end |-> "MaxReached", cursor |-> c, iters |-> n + 1]
                 ELSE NextLoop(c, start, s, l, n + 1)
    ELSE [end |-> "Found", cursor |-> cur, iters |-> n]

\* next() that forgets to record the value it returns.
FactoryNext_NoInsert(f) ==
    LET w == NextLoop(f.cursor, f.cursor, f.set, f.looping, 0)
    IN CASE w.end = "Found" ->
              [f |-> [f EXCEPT !.cursor = IF f.looping THEN wrapping_next(w.cursor)
                                                       ELSE saturating_next(w.cursor)],
               res |-> Ok(w.cursor), iters |-> w.iters]
         [] OTHER ->
              [f |-> [f EXCEPT !.cursor = w.cursor],
               res |-> [tag |-> w.end, val |-> NoVal], iters |-> w.iters]

\* next() that searches from initial_value instead of from the cursor.
FactoryNext_FromInitial(f) ==
    LET w == NextLoop(f.initial_value, f.initial_value, f.set, f.looping, 0)
    IN CASE w.end = "Found" ->
              [f |-> [f EXCEPT !.set = f.set \cup {w.cursor},
                               !.cursor = IF f.looping THEN wrapping_next(w.cursor)
                                                       ELSE saturating_next(w.cursor)],
               res |-> Ok(w.cursor), iters |-> w.iters]
         [] OTHER ->
              [f |-> [f EXCEPT !.cursor = w.cursor],
               res |-> [tag |-> w.end, val |-> NoVal], iters |-> w.iters]

\* next() that loops back to initial_value after issuing the maximum.
FactoryNext_WrapToInitial(f) ==
    LET w == NextLoop(f.cursor, f.cursor, f.set, f.looping, 0)
    IN CASE w.end = "Found" ->
              [f |-> [f EXCEPT !.set = f.set \cup {w.cursor},
                               !.cursor = IF f.looping
                                          THEN IF is_max_reached(w.cursor)
                                               THEN f.initial_value
                                               ELSE wrapping_next(w.cursor)
                                          ELSE saturating_next(w.cursor)],
               res |-> Ok(w.cursor), iters |-> w.iters]
         [] OTHER ->
              [f |-> [f EXCEPT !.cursor = w.cursor],
               res |-> [tag |-> w.end, val |-> NoVal], iters |-> w.iters]

\* next() that advances by wrapping_next whatever the looping setting is.
FactoryNext_AdvanceWraps(f) ==
    LET w == NextLoop(f.cursor, f.cursor, f.set, f.looping, 0)
    IN CASE w.end = "Found" ->
              [f |-> [f EXCEPT !.set = f.set \cup {w.cursor},
                               !.cursor = wrapping_next(w.cursor)],
               res |-> Ok(w.cursor), iters |-> w.iters]
         [] OTHER ->
              [f |-> [f EXCEPT !.cursor = w.cursor],
               res |-> [tag |-> w.end, val |-> NoVal], iters |-> w.iters]

\* next() that puts the cursor back where it started when it fails.
FactoryNext_RestoreCursor(f) ==
    LET w == NextLoop(f.cursor, f.cursor, f.set, f.looping, 0)
    IN CASE w.end = "Found" ->
              [f |-> [f EXCEPT !.set = f.set \cup {w.cursor},
                               !.cursor = IF f.looping THEN wrapping_next(w.cursor)
                                                       ELSE saturating_next(w.cursor)],
               res |-> Ok(w.cursor), iters |-> w.iters]
         [] OTHER ->
              [f |-> f, res |-> [tag |-> w.end, val |-> NoVal], iters |-> w.iters]

\* next() that fails at once when the cursor is the maximum and looping is off.
FactoryNext_StickyMax(f) ==
    LET w == NextLoop(f.cursor, f.cursor, f.set, f.looping, 0)
    IN CASE ~f.looping /\ is_max_reached(f.cursor) ->
              [f |-> f, res |-> MaxReached, iters |-> 0]
         [] w.end = "Found" ->
              [f |-> [f EXCEPT !.set = f.set \cup {w.cursor},
                               !.cursor = IF f.looping THEN wrapping_next(w.cursor)
                                                       ELSE saturating_next(w.cursor)],
               res |-> Ok(w.cursor), iters |-> w.iters]
         [] OTHER ->
              [f |-> [f EXCEPT !.cursor = w.cursor],
               res |-> [tag |-> w.end, val |-> NoVal], iters |-> w.iters]

\* Factory::next on the factory f: the factory afterwards, the result and the
\* number of iterations of the while loop.
FactoryNext(f) ==
    LET w == NextLoop(f.cursor, f.cursor, f.set, f.looping, 0)
    IN CASE w.end = "OutOfSpace" ->
              [f |-> [f EXCEPT !.cursor = w.cursor], res |-> OutOfSpace, iters |-> w.iters]
         [] w.end = "MaxReached" ->
              [f |-> [f EXCEPT !.cursor = w.cursor], res |-> MaxReached, iters |-> w.iters]
         [] w.end = "Diverged" ->
              [f |-> [f EXCEPT !.cursor = w.cursor], res |-> Diverged, iters |-> w.iters]
         [] w.end = "Found" ->
              [f |-> [f EXCEPT !.set = f.set \cup {w.cursor},
                               !.cursor = IF f.looping THEN wrapping_next(w.cursor)
                                                       ELSE saturating_next(w.cursor)],
               res |-> Ok(w.cursor), iters |-> w.iters]

\* remove() that ignores the rewind setting and never moves the cursor.
FactoryRemove_NoRewind(f, id) ==
    IF id \in f.set
    THEN [f |-> [f EXCEPT !.set = f.set \ {id}], res |-> RetBool(TRUE), iters |-> 0]
    ELSE [f |-> f, res |-> RetBool(FALSE), iters |-> 0]

\* remove() that rewinds before it knows whether the value was present.
FactoryRemove_RewindAbsent(f, id) ==
    IF id \in f.set
    THEN [f |-> [f EXCEPT !.set = f.set \ {id},
                          !.cursor = IF f.rewind THEN id ELSE f.cursor],
          res |-> RetBool(TRUE), iters |-> 0]
    ELSE [f |-> [f EXCEPT !.cursor = IF f.rewind THEN id ELSE f.cursor],
          res |-> RetBool(FALSE), iters |-> 0]

\* remove() that rewinds whatever the rewind setting is.
FactoryRemove_AlwaysRewind(f, id) ==
    IF id \in f.set
    THEN [f |-> [f EXCEPT !.set = f.set \ {id}, !.cursor = id],
          res |-> RetBool(TRUE), iters |-> 0]
    ELSE [f |-> f, res |-> RetBool(FALSE), iters |-> 0]

\* remove() that reports the value as removed and leaves it in the set.
FactoryRemove_KeepsValue(f, id) ==
    IF id \in f.set
    THEN [f |-> [f EXCEPT !.cursor = IF f.rewind THEN id ELSE f.cursor],
          res |-> RetBool(TRUE), iters |-> 0]
    ELSE [f |-> f, res |-> RetBool(FALSE), iters |-> 0]

\* remove() that moves the cursor back to the start of the domain.
FactoryRemove_RewindToInitial(f, id) ==
    IF id \in f.set
    THEN [f |-> [f EXCEPT !.set = f.set \ {id},
                          !.cursor = IF f.rewind THEN id ELSE INITIAL],
          res |-> RetBool(TRUE), iters |-> 0]
    ELSE [f |-> f, res |-> RetBool(FALSE), iters |-> 0]

\* Factory::remove
FactoryRemove(f, id) ==
    IF id \in f.set
    THEN [f |-> [f EXCEPT !.set = f.set \ {id},
                          !.cursor = IF f.rewind THEN id ELSE f.cursor],
          res |-> RetBool(TRUE), iters |-> 0]
    ELSE [f |-> f, res |-> RetBool(FALSE), iters |-> 0]

\* reset() that restores the cursor and keeps the set.
FactoryReset_KeepSet(f) ==
    [f |-> [f EXCEPT !.cursor = f.initial_value], res |-> Unit, iters |-> 0]

\* Factory::reset
FactoryReset(f) ==
    [f |-> [f EXCEPT !.cursor = f.initial_value, !.set = {}], res |-> Unit, iters |-> 0]

\* take_up() that inserts without looking.
FactoryTakeUp_NoCheck(f, id) ==
    [f |-> [f EXCEPT !.set = f.set \cup {id}], res |-> Unit, iters |-> 0]

\* Factory::take_up
FactoryTakeUp(f, id) ==
    IF id \in f.set
    THEN [f |-> f, res |-> AlreadyExist(id), iters |-> 0]
    ELSE [f |-> [f EXCEPT !.set = f.set \cup {id}], res |-> Unit, iters |-> 0]

\* ---- state -------------------------------------------------------------
VARIABLES
    initial_value, looping, rewind, cursor, set,   \* the fields of Factory<T>
    call,      \* the last call: operation, argument, result, loop iterations
               \* and the cursor and set it started from
    prev,      \* the call before it: operation, argument, result
    streak,    \* next() calls made since construction or reset() while no
               \* other operation was called; Broken once one was
    stale,     \* values removed since construction or reset() that were
               \* below the cursor when removed
    fresh,     \* after a reset(): a factory built anew with the same
               \* configuration at that moment and given the same calls since
    before_ok, \* the value of the last successful next() before the last
               \* call, since construction or reset(); NoVal if there is none
    was_at_max,\* whether, when the last call was made, the most recent
               \* successful next() had returned the maximum and neither
               \* remove() nor reset() had been called since
    chase      \* after a successful remove(a) followed by next() calls only:
               \* a, the number of those calls, and whether the last of them
               \* returned a

vars == <<initial_value, looping, rewind, cursor, set, call, prev, streak, stale, fresh,
          before_ok, was_at_max, chase>>

Self == [initial_value |-> initial_value, looping |-> looping, rewind |-> rewind,
         cursor |-> cursor, set |-> set]

Broken == 0 - 1
MaxCalls == DomSize + 2
NoFactory == [none |-> TRUE]
NoCall == [op |-> "new", arg |-> NoVal, res |-> Unit]

Brief(c) == [op |-> c.op, arg |-> c.arg, res |-> c.res]
NoChase == [none |-> TRUE]

\* The value of the most recent successful next() since construction or
\* reset(), the last call included.
LastOk ==
    IF call.op = "next" /\ call.res.tag = "Ok" THEN call.res.val
    ELSE IF call.op \in {"new", "reset"} THEN NoVal
    ELSE before_ok

\* The most recent successful next() returned the maximum and neither
\* remove() nor reset() was called since, the last call included.
AtMax ==
    IF call.op = "next" /\ call.res.tag = "Ok" THEN call.res.val = TMAX
    ELSE IF call.op \in {"new", "reset", "remove"} THEN FALSE
    ELSE was_at_max

\* The effect r of the operation o with the argument a on the factory.
Apply(o, a, r) ==
    /\ initial_value' = r.f.initial_value
    /\ looping' = r.f.looping
    /\ rewind' = r.f.rewind
    /\ cursor' = r.f.cursor
    /\ set' = r.f.set
    /\ call' = [op |-> o, arg |-> a, res |-> r.res, iters |-> r.iters,
                cursor |-> cursor, set |-> set]
    /\ prev' = Brief(call)
    /\ before_ok' = LastOk
    /\ was_at_max' = AtMax

Init ==
    /\ \E iv \in Dom, l \in BOOLEAN, r \in BOOLEAN :
          LET f == Build(iv, l, r)
          IN /\ initial_value = f.initial_value
             /\ looping = f.looping
             /\ rewind = f.rewind
             /\ cursor = f.cursor
             /\ set = f.set
    /\ call = [op |-> "new", arg |-> NoVal, res |-> Unit, iters |-> 0,
               cursor |-> cursor, set |-> set]
    /\ prev = NoCall
    /\ streak = 0
    /\ stale = {}
    /\ fresh = NoFactory
    /\ before_ok = NoVal
    /\ was_at_max = FALSE
    /\ chase = NoChase

\* factory.next()
Next_ ==
    /\ Apply("next", NoVal, FactoryNext(Self))
    /\ streak' = IF streak = Broken THEN Broken
                 ELSE IF streak < MaxCalls THEN streak + 1 ELSE MaxCalls
    /\ stale' = stale
    /\ fresh' = IF fresh = NoFactory THEN fresh
                ELSE LET r == FactoryNext(fresh.f) IN [f |-> r.f, res |-> r.res]
    /\ chase' = IF chase = NoChase \/ chase.done THEN NoChase
                ELSE [val |-> chase.val,
                      n |-> IF chase.n < MaxCalls THEN chase.n + 1 ELSE MaxCalls,
                      done |-> FactoryNext(Self).res = Ok(chase.val)]

\* factory.remove(id)
Remove ==
    \E id \in Dom :
       /\ Apply("remove", id, FactoryRemove(Self, id))
       /\ streak' = Broken
       /\ stale' = IF id \in set /\ id < cursor THEN stale \cup {id} ELSE stale
       /\ fresh' = IF fresh = NoFactory THEN fresh
                   ELSE LET r == FactoryRemove(fresh.f, id) IN [f |-> r.f, res |-> r.res]
       /\ chase' = IF FactoryRemove(Self, id).res = RetBool(TRUE)
                   THEN [val |-> id, n |-> 0, done |-> FALSE]
                   ELSE NoChase

\* factory.take_up(id)
TakeUp ==
    \E id \in Dom :
       /\ Apply("take_up", id, FactoryTakeUp(Self, id))
       /\ streak' = Broken
       /\ stale' = stale
       /\ fresh' = IF fresh = NoFactory THEN fresh
                   ELSE LET r == FactoryTakeUp(fresh.f, id) IN [f |-> r.f, res |-> r.res]
       /\ chase' = NoChase

\* factory.reset()
Reset ==
    /\ Apply("reset", NoVal, FactoryReset(Self))
    /\ streak' = 0
    /\ stale' = {}
    /\ fresh' = [f |-> Build(initial_value, looping, rewind), res |-> Unit]
    /\ chase' = NoChase

Next == Next_ \/ Remove \/ TakeUp \/ Reset

Spec == Init /\ [][Next]_vars

TypeOK ==
    /\ initial_value \in Dom /\ cursor \in Dom /\ set \subseteq Dom
    /\ looping \in BOOLEAN /\ rewind \in BOOLEAN
\* ---- properties --------------------------------------------------------
IsNext == call.op = "next"
NextOk == call.op = "next" /\ call.res.tag = "Ok"

\* C1: a value returned by a successful next() was not in the issued set
\* immediately before the call and is in it immediately after, so a value
\* that is issued is not returned again before it is removed or cleared.
C1_NoLiveValueIssuedTwice ==
    NextOk => (call.res.val \notin call.set /\ call.res.val \in set)

\* next() passed over an issued value at the cursor and returned another one.
C1_Witness ==
    NextOk /\ call.cursor \in call.set /\ call.res.val \notin call.set

\* The number of successor steps from the value c to the value v.
Dist(c, v) == (v - c + DomSize) % DomSize

\* The first value not in s at or after c in domain order: ascending, and
\* continuing from the maximum to the minimum when l holds.
FirstFree(c, s, l) ==
    IF l
    THEN CHOOSE v \in Dom \ s : \A u \in Dom \ s : Dist(c, v) <= Dist(c, u)
    ELSE CHOOSE v \in (c..TMAX) \ s : \A u \in (c..TMAX) \ s : v <= u

\* C2: a successful next() returns the first value not in the issued set at
\* or after the cursor it started from, in domain order (wrapping from the
\* maximum to the minimum iff looping); the issued values in between are
\* skipped.
C2_ReturnsFirstFree ==
    NextOk =>
       /\ IF looping THEN call.set # Dom ELSE (call.cursor..TMAX) \ call.set # {}
       /\ call.res.val = FirstFree(call.cursor, call.set, looping)

\* take_up() reserved the value under the cursor and the next() that
\* followed skipped it.
C2_Witness ==
    /\ NextOk /\ prev.op = "take_up" /\ prev.res = Unit
    /\ prev.arg = call.cursor /\ call.res.val # call.cursor

\* C3: with looping, next() fails iff every value of the domain is issued,
\* the failure is OutOfSpace, and when exactly one value is not issued
\* next() returns that value wherever the cursor is.
C3_LoopingFailsIffFull ==
    (looping /\ IsNext) =>
       /\ (call.res.tag # "Ok") <=> (call.set = Dom)
       /\ (call.res.tag # "Ok") => call.res = OutOfSpace
       /\ \A v \in Dom : (Dom \ call.set = {v}) => call.res = Ok(v)

\* The one free value lay immediately behind the cursor and was returned.
C3_Witness ==
    /\ looping /\ NextOk /\ Cardinality(call.set) = DomSize - 1
    /\ wrapping_next(call.res.val) = call.cursor

\* C4: without looping, the k-th of the next() calls made on a new or reset
\* factory returns initial_value + (k-1) up to and including the maximum,
\* and every later one fails with MaxReached.
C4_CountsUpThenMaxReached ==
    (~looping /\ IsNext /\ streak # Broken) =>
       IF initial_value + (streak - 1) <= TMAX
       THEN call.res = Ok(initial_value + (streak - 1))
       ELSE call.res = MaxReached

\* The maximum was returned and the call after it failed.
C4_Witness ==
    /\ ~looping /\ IsNext /\ streak # Broken /\ initial_value < TMAX
    /\ prev.res = Ok(TMAX) /\ call.res = MaxReached

\* C5: with rewind, after remove(a) returned true the cursor is a, and a
\* next() that follows immediately returns a, with or without looping.
C5_RewindReissuesRemoved ==
    /\ (rewind /\ call.op = "remove" /\ call.res = RetBool(TRUE)) => cursor = call.arg
    /\ (rewind /\ IsNext /\ prev.op = "remove" /\ prev.res = RetBool(TRUE)) =>
          (call.cursor = prev.arg /\ call.res = Ok(prev.arg))

\* The removed value was returned although a smaller value was free.
C5_Witness ==
    /\ rewind /\ IsNext /\ prev.op = "remove" /\ prev.res = RetBool(TRUE)
    /\ call.res = Ok(prev.arg)
    /\ \E v \in Dom \ call.set : v < prev.arg

\* C6: take_up(v) of an issued v fails with AlreadyExist(v) and changes
\* nothing; of a v that is not issued it succeeds, adds exactly v and leaves
\* the cursor; take_up(v) right after take_up(v) fails.
C6_TakeUp ==
    /\ call.op = "take_up" =>
          /\ cursor = call.cursor
          /\ IF call.arg \in call.set
             THEN call.res = AlreadyExist(call.arg) /\ set = call.set
             ELSE call.res = Unit /\ set = call.set \cup {call.arg}
    /\ (call.op = "take_up" /\ prev.op = "take_up" /\ prev.arg = call.arg) =>
          call.res = AlreadyExist(call.arg)

\* A value was reserved and the same reservation was refused right after.
C6_Witness ==
    /\ call.op = "take_up" /\ prev.op = "take_up" /\ prev.arg = call.arg
    /\ prev.res = Unit /\ call.res = AlreadyExist(call.arg) /\ set = call.set

\* C7: remove(v) returns true exactly when v was issued, afterwards v is not
\* issued and no other membership changed; remove of a value that is not
\* issued returns false and leaves set and cursor, also with rewind.
C7_Remove ==
    call.op = "remove" =>
       /\ call.res = RetBool(call.arg \in call.set)
       /\ set = call.set \ {call.arg}
       /\ call.arg \notin call.set => (set = call.set /\ cursor = call.cursor)

\* With rewind, a value that is not issued and not under the cursor was
\* removed.
C7_Witness ==
    /\ rewind /\ call.op = "remove" /\ call.res = RetBool(FALSE)
    /\ call.arg # call.cursor /\ call.set # {}

\* C8: after reset() the cursor is initial_value and the issued set is
\* empty, as in a new factory of the same configuration, and from then on
\* the factory and a new one given the same calls agree in state and result.
C8_ResetIsFresh ==
    /\ call.op = "reset" => (cursor = initial_value /\ set = {})
    /\ fresh # NoFactory => (fresh.f = Self /\ fresh.res = call.res)

\* reset() came after a failed next() with values issued and the cursor
\* moved.
C8_Witness ==
    /\ call.op = "reset" /\ call.set # {} /\ call.cursor # initial_value
    /\ prev.op = "next" /\ prev.res.tag # "Ok"

\* C9: without rewind remove() leaves the cursor, present or not; so without
\* looping and rewind a value removed while below the cursor is not returned
\* by next() before reset().
C9_NoRewindKeepsCursor ==
    /\ (~rewind /\ call.op = "remove") => cursor = call.cursor
    /\ (~rewind /\ ~looping /\ NextOk) => call.res.val \notin stale

\* A value removed below the cursor was free and next() returned a larger
\* one.
C9_Witness ==
    /\ ~rewind /\ ~looping /\ NextOk
    /\ \E v \in stale : v \notin call.set /\ v < call.res.val

\* C10: the loop of next() ends after at most as many iterations as the
\* domain has values, in a found value, MaxReached or OutOfSpace.
C10_NextTerminates ==
    IsNext => (call.iters <= DomSize /\ call.res.tag \in {"Ok", "MaxReached", "OutOfSpace"})

\* The loop went once around the whole domain.
C10_Witness ==
    IsNext /\ call.iters = DomSize /\ call.res = OutOfSpace
\* C11: with looping, once next() has returned the maximum the cursor is the
\* configured initial_value, so the following next() returns initial_value
\* when that value is not issued.
C11_LoopsBackToInitialValue ==
    /\ (looping /\ NextOk /\ call.res.val = TMAX) => cursor = initial_value
    /\ (looping /\ IsNext /\ prev.op = "next" /\ prev.res = Ok(TMAX)
           /\ initial_value \notin call.set) => call.res = Ok(initial_value)

\* C12: with looping, once next() has returned the maximum the cursor is the
\* domain minimum whatever initial_value is, and the following next()
\* returns the minimum when it is not issued.
C12_WrapsToMinimum ==
    /\ (looping /\ NextOk /\ call.res.val = TMAX) => cursor = TMIN
    /\ (looping /\ IsNext /\ prev.op = "next" /\ prev.res = Ok(TMAX)
           /\ TMIN \notin call.set) => call.res = Ok(TMIN)

\* The maximum and then the minimum were returned while initial_value was
\* neither issued nor the minimum.
C12_Witness ==
    /\ looping /\ IsNext /\ prev.op = "next" /\ prev.res = Ok(TMAX)
    /\ call.res = Ok(TMIN) /\ initial_value # TMIN /\ initial_value \notin call.set

\* C13: next() called while every value of the domain is issued returns
\* OutOfSpace, with or without looping.
C13_FullIsOutOfSpace ==
    (IsNext /\ call.set = Dom) => call.res = OutOfSpace

\* C14: without looping, when the most recent successful next() returned
\* the maximum and neither remove() nor reset() was called since, next()
\* fails with MaxReached.
C14_MaxReachedAfterMaximum ==
    (~looping /\ IsNext /\ was_at_max) => call.res = MaxReached

\* After the maximum was returned, a failed next() and a take_up(), next()
\* failed again.
C14_Witness ==
    /\ ~looping /\ IsNext /\ was_at_max /\ call.res = MaxReached
    /\ prev.op = "take_up" /\ prev.res = Unit /\ initial_value < TMAX

\* C15: without looping and rewind, between two resets each value returned
\* by a successful next() is strictly greater than the one returned by the
\* successful next() before it.
C15_StrictlyAscending ==
    (~looping /\ ~rewind /\ NextOk /\ before_ok # NoVal) => call.res.val > before_ok

\* C15 as amended: strictly greater, except that the maximum is returned
\* again after it was returned and then removed.
C15_AscendingUpToMaximum ==
    (~looping /\ ~rewind /\ NextOk /\ before_ok # NoVal) =>
       \/ call.res.val > before_ok
       \/ call.res.val = TMAX /\ before_ok = TMAX /\ ~was_at_max

\* A smaller value had been removed and next() still returned a greater
\* value than before.
C15_Witness ==
    /\ ~looping /\ ~rewind /\ NextOk /\ before_ok # NoVal
    /\ call.res.val > before_ok
    /\ \E v \in stale : v \notin call.set

\* C16: INITIAL is the minimum; is_max_reached(v) iff v is the maximum;
\* saturating_next(v) is v+1 below the maximum and the maximum at it;
\* wrapping_next(v) is v+1 below the maximum and the minimum at it; neither
\* leaves the domain, and the cursor after a successful next() is that
\* successor of the value returned.
C16_BoundedSuccessors ==
    /\ INITIAL = TMIN /\ \A u \in Dom : INITIAL <= u
    /\ \A v \in Dom :
          /\ is_max_reached(v) <=> (\A u \in Dom : u <= v)
          /\ saturating_next(v) = IF v < TMAX THEN v + 1 ELSE TMAX
          /\ wrapping_next(v) = IF v < TMAX THEN v + 1 ELSE TMIN
          /\ saturating_next(v) \in Dom /\ wrapping_next(v) \in Dom
    /\ NextOk =>
          /\ cursor \in Dom
          /\ cursor = IF call.res.val < TMAX THEN call.res.val + 1
                      ELSE IF looping THEN TMIN ELSE TMAX

\* The successor was taken of the maximum, with wrapping.
C16_Witness ==
    NextOk /\ looping /\ is_max_reached(call.res.val) /\ cursor = TMIN

\* C17: without looping, next() called with the cursor below the maximum
\* and every value from the cursor to maximum-1 issued fails with
\* MaxReached, whether or not the maximum is issued, and adds nothing to the
\* issued set.
C17_MaxNotIssuedByAdvance ==
    (~looping /\ IsNext /\ call.cursor < TMAX
        /\ \A v \in call.cursor..(TMAX - 1) : v \in call.set) =>
       (call.res = MaxReached /\ set = call.set)

\* The call failed although the maximum was free.
C17_Witness ==
    /\ ~looping /\ IsNext /\ call.cursor < TMAX /\ call.res = MaxReached
    /\ TMAX \notin call.set /\ TMAX \notin set

\* C18: a failing next() leaves the issued set; on OutOfSpace the cursor is
\* where it was before the call, on MaxReached it is the maximum.
C18_FailureFrame ==
    (IsNext /\ call.res.tag # "Ok") =>
       /\ set = call.set
       /\ call.res = OutOfSpace => cursor = call.cursor
       /\ call.res = MaxReached => cursor = TMAX

\* A call that started below the maximum failed with MaxReached.
C18_Witness ==
    IsNext /\ call.res = MaxReached /\ call.cursor < TMAX /\ cursor = TMAX

\* C19: with looping, after remove(a) returned true and with next() calls
\* only since, every call succeeds until a is returned, and a is returned
\* within as many calls as the domain has values.
C19_RemovedIsReused ==
    (looping /\ chase # NoChase /\ IsNext) =>
       /\ call.res.tag = "Ok"
       /\ chase.n <= DomSize
       /\ chase.n = DomSize => chase.done

\* The removed value came back only with the last of |domain| calls.
C19_Witness ==
    /\ looping /\ chase # NoChase /\ IsNext
    /\ chase.n = DomSize /\ chase.done /\ call.res = Ok(chase.val)

\* C20: without looping, after next() failed with MaxReached the cursor is
\* the maximum, and a next() directly after it returns the maximum iff the
\* maximum is not issued and fails with MaxReached otherwise.
C20_MaxReachedNotSticky ==
    /\ (~looping /\ IsNext /\ call.res = MaxReached) => cursor = TMAX
    /\ (~looping /\ IsNext /\ prev.op = "next" /\ prev.res = MaxReached) =>
          /\ call.cursor = TMAX
          /\ call.res = IF TMAX \in call.set THEN MaxReached ELSE Ok(TMAX)

\* The call after the failure returned the maximum.
C20_Witness ==
    /\ ~looping /\ IsNext /\ prev.op = "next" /\ prev.res = MaxReached
    /\ call.res = Ok(TMAX)
====
